---- MODULE Spec2Model ----
(***************************************************************************)
(* Model of origamiUROP/tools.py: DNANode (a 3-D point carrying two        *)
(* optional direction vectors and a derived angle) and DNAEdge (a pair of  *)
(* DNANodes with derived geometry, strand generation and node lookup).     *)
(*                                                                         *)
(* Coordinates are fixed-point: the integer k stands for the length        *)
(* k / Scale.  A dot product or squared norm of two such vectors is in     *)
(* units of 1 / Scale^2.  Irrational results (norm, unit vector) are kept  *)
(* exact by carrying the squared norm instead of its root.                 *)
(***************************************************************************)
EXTENDS Integers, Sequences, FiniteSets

VARIABLES
    nodes,   \* the DNANode objects alive, in creation order
    edges,   \* the DNAEdge objects alive: each one's `vertices` pair
    out      \* what the latest call returned, raised and printed

vars == <<nodes, edges, out>>

----------------------------------------------------------------------------
(* Bounds of the model *)

Scale == 10        \* ticks per unit of length
MaxCoord == 2      \* x coordinates of the coarse grid: 0 .. MaxCoord units
MaxNodes == 3
MaxEdges == 2
MaxSeqLen == 3     \* longest `sequence` handed to strand()

(* 2.45 nucleotides per unit of length, as the fraction 245 / 100 *)
NtPerLengthNum == 245
NtPerLengthDen == 100

----------------------------------------------------------------------------
(* Values *)

None == <<>>

Origin == <<0, 0, 0>>

\* The coarse grid: points on the x axis, one unit apart ...
AxisPoints == {<<x * Scale, 0, 0>> : x \in 0..MaxCoord}

\* ... with one point off the axis in the xy plane and one straight above
\* the origin (an edge parallel to z has no perpendicular in the xy plane).
Points == AxisPoints \cup {<<0, Scale, 0>>, <<0, 0, Scale>>}

\* The fine grid, used for the length conversion: the lengths 0.0, 0.1, ...
\* up to 2.0 along x, and the triangle (0.9, 4.0, 4.1).
FinePoints ==
    {<<x, 0, 0>> : x \in 0..(2 * Scale)} \cup {<<(9 * Scale) \div 10, 4 * Scale, 0>>}

\* `sequence` arguments: None, the empty string, or a string of 1..MaxSeqLen bases
Sequences ==
    {[given |-> FALSE, text |-> <<>>]}
        \cup {[given |-> TRUE, text |-> [i \in 1..n |-> "A"]] : n \in 0..MaxSeqLen}

----------------------------------------------------------------------------
(* numpy arithmetic on 3-vectors *)

Sub(a, b) == <<a[1] - b[1], a[2] - b[2], a[3] - b[3]>>

Neg(a) == <<0 - a[1], 0 - a[2], 0 - a[3]>>

Dot(a, b) == a[1] * b[1] + a[2] * b[2] + a[3] * b[3]

NormSq(a) == Dot(a, a)

\* np.arccos: a real angle for an argument within [-1, 1], NaN outside it.
\* arccos is a bijection from [-1, 1] onto [0, pi], so the angle is carried
\* by its cosine: cos = Scale^2 is the angle 0, cos = -Scale^2 the angle pi.
ArcCos(d) ==
    IF (0 - Scale * Scale) <= d /\ d <= Scale * Scale
    THEN [kind |-> "rad", cos |-> d]
    ELSE [kind |-> "nan", cos |-> 0]

NoAngle == [kind |-> "None", cos |-> 0]

----------------------------------------------------------------------------
(* DNANode *)

DNANode(position) ==
    [pos |-> position, vector_3p |-> None, vector_5p |-> None]

AngleArgumentUnsigned(n) == Dot(n.vector_3p, n.vector_5p)

\* The value DNANode.angle hands to np.arccos
AngleArgument(n) == Dot(Neg(n.vector_3p), n.vector_5p)

Angle(n) ==
    IF n.vector_3p = None THEN NoAngle
    ELSE IF n.vector_5p = None THEN NoAngle
    ELSE ArcCos(AngleArgument(n))

SetVector3p(ns, i, new_vector) == [ns EXCEPT ![i].vector_3p = new_vector]

SetVector5p(ns, i, new_vector) == [ns EXCEPT ![i].vector_5p = new_vector]

----------------------------------------------------------------------------
(* DNAEdge: derived geometry, as functions of the node store and the edge *)

VectorReversed(ns, e) == Sub(ns[e.v0].pos, ns[e.v1].pos)

Vector(ns, e) == Sub(ns[e.v1].pos, ns[e.v0].pos)

\* np.linalg.norm(v1 - v0): the root of sq, in ticks
Length(ns, e) == [sq |-> NormSq(Sub(ns[e.v1].pos, ns[e.v0].pos))]

\* vector / (vector ** 2).sum() ** 0.5: 0 / 0 is NaN in every component
UnitVector(ns, e) ==
    LET v == Vector(ns, e) IN
    IF NormSq(v) = 0
    THEN [kind |-> "nan", num |-> Origin, denSq |-> 0]
    ELSE [kind |-> "vec", num |-> v, denSq |-> NormSq(v)]

\* np.cross(unit_vector, [0, 0, 1]) = (u_y, -u_x, 0); NaN stays NaN
PerpVector(ns, e) ==
    LET u == UnitVector(ns, e) IN
    IF u.kind = "nan" THEN u
    ELSE [kind |-> "vec", num |-> <<u.num[2], 0 - u.num[1], 0>>, denSq |-> u.denSq]

\* n <= root(sq) / Scale * 2.45, compared exactly on the squares
NtFits(n, sq) ==
    (n * NtPerLengthDen * Scale) * (n * NtPerLengthDen * Scale)
        <= sq * NtPerLengthNum * NtPerLengthNum

RECURSIVE TruncateFrom(_, _)
TruncateFrom(n, sq) == IF NtFits(n + 1, sq) THEN TruncateFrom(n + 1, sq) ELSE n

NtLengthRounded(ns, e) ==
    LET n == TruncateFrom(0, Length(ns, e).sq) IN
    IF NtFits(2 * n + 1, 4 * Length(ns, e).sq) THEN n + 1 ELSE n

\* int(length * 2.45): truncation of a non-negative product
NtLength(ns, e) == TruncateFrom(0, Length(ns, e).sq)

----------------------------------------------------------------------------
(* Arguments *)

\* A vertex argument of DNAEdge(...): an existing DNANode or a raw position
NodeArg(i) == [pos |-> Origin, isNode |-> TRUE, id |-> i]

RawArg(p) == [pos |-> p, isNode |-> FALSE, id |-> 0]

VertexArgs(ps) ==
    {NodeArg(i) : i \in 1..Len(nodes)} \cup {RawArg(p) : p \in ps}

\* A node_3p / node_5p argument of node(): 0 is None, i > 0 the DNANode i
NodeHints == 0..Len(nodes)

\* bool(x) of an argument that is None or a DNANode.  A DNANode is an
\* ndarray of three elements, whose truth value numpy refuses to give.
Truth(hint) == IF hint = 0 THEN "False" ELSE "ValueError"

----------------------------------------------------------------------------
(* Operations *)

\* DNANode(position), called by a user of the module
CreateNode(p) ==
    /\ Len(nodes) < MaxNodes
    /\ nodes' = Append(nodes, DNANode(p))
    /\ out' = [id |-> Len(nodes) + 1, op |-> "DNANode"]
    /\ UNCHANGED edges

\* isinstance(vertex, DNANode) or else wrap it: the store after resolving
\* one vertex argument, and the index of the vertex in it
Resolved(ns, a) == IF a.isNode THEN ns ELSE Append(ns, DNANode(a.pos))

VertexId(ns, a) == IF a.isNode THEN a.id ELSE Len(ns) + 1

\* DNAEdge(vertex_1, vertex_2)
CreateEdge(a, b) ==
    LET ns1 == Resolved(nodes, a)
        i   == VertexId(nodes, a)
        ns2 == Resolved(ns1, b)
        j   == VertexId(ns1, b)
        e   == [v0 |-> i, v1 |-> j]
        ns3 == SetVector5p(ns2, i, Vector(ns2, e))
        ns4 == SetVector3p(ns3, j, Neg(Vector(ns3, e)))
    IN  /\ Len(edges) < MaxEdges
        /\ Len(ns2) <= MaxNodes
        /\ nodes' = ns4
        /\ edges' = Append(edges, e)
        /\ out' = [op |-> "DNAEdge", status |-> "ok", vertex_1 |-> a, vertex_2 |-> b,
                   edge |-> Len(edges) + 1]

\* The external helix generator: an opaque result for the arguments it got
GenerateHelix(call) == [strands_for |-> call]

WarnsStrictlyLonger(len, nt) == len > nt

\* len(sequence) >= self.nt_length
Warns(len, nt) == len >= nt

\* DNAEdge.strand(sequence)
Strand(k, sequence) ==
    LET e    == edges[k]
        nt   == NtLength(nodes, e)
        none == ~sequence.given \/ Len(sequence.text) = 0    \* `not sequence`
        bp   == IF none THEN nt ELSE Len(sequence.text)
        call == [sequence |-> sequence, bp |-> bp, start_pos |-> nodes[e.v0].pos,
                 back_orient_a1 |-> PerpVector(nodes, e),
                 base_orient_a3 |-> UnitVector(nodes, e)]
    IN  /\ out' = [op |-> "strand", status |-> "ok", edge |-> k,
                   sequence |-> sequence,
                   printed |-> IF ~none /\ Warns(Len(sequence.text), nt) THEN 1 ELSE 0,
                   calls |-> <<call>>,
                   result |-> GenerateHelix(call)]
        /\ UNCHANGED <<nodes, edges>>

\* not (node_3p or node_5p) or (node_3p and node_5p), evaluated left to
\* right with Python's short circuit: "True", "False" or the exception
NodeGuard(node_3p, node_5p) ==
    LET either  == IF Truth(node_3p) = "False" THEN node_5p ELSE node_3p
    IN  IF Truth(node_3p) = "ValueError" THEN "ValueError"              \* node_3p or ...
        ELSE IF Truth(either) = "ValueError" THEN "ValueError"      \* not (...)
        ELSE IF Truth(either) = "False" THEN "True"                 \* not None
        ELSE "unreachable"

\* DNAEdge.node(node_3p, node_5p)
Node(k, node_3p, node_5p) ==
    /\ k \in 1..Len(edges)
    /\ out' = [op |-> "node",
               status |-> IF NodeGuard(node_3p, node_5p) = "True"
                          THEN "TypeError: Only give one node"
                          ELSE NodeGuard(node_3p, node_5p),
               node_3p |-> node_3p, node_5p |-> node_5p,
               returned |-> 0]
    /\ UNCHANGED <<nodes, edges>>

\* Reading length, nt_length, vector, unit_vector and perp_vector of an edge
Geometry(k) ==
    /\ out' = [op |-> "geometry", edge |-> k,
               length |-> Length(nodes, edges[k]),
               nt_length |-> NtLength(nodes, edges[k]),
               vector |-> Vector(nodes, edges[k]),
               unit_vector |-> UnitVector(nodes, edges[k]),
               perp_vector |-> PerpVector(nodes, edges[k])]
    /\ UNCHANGED <<nodes, edges>>

----------------------------------------------------------------------------
(* Specifications *)

Init ==
    /\ nodes = <<>>
    /\ edges = <<>>
    /\ out = [op |-> "none"]

\* Every operation, over the coarse grid
Next ==
    \/ \E p \in Points : CreateNode(p)
    \/ \E a \in VertexArgs(Points), b \in VertexArgs(Points) : CreateEdge(a, b)
    \/ \E k \in 1..Len(edges), s \in Sequences : Strand(k, s)
    \/ \E k \in 1..Len(edges), n3 \in NodeHints, n5 \in NodeHints : Node(k, n3, n5)
    \/ \E k \in 1..Len(edges) : Geometry(k)

Spec == Init /\ [][Next]_vars

\* Construction only: nodes and edges along one line, shared at will
NextEdges ==
    \/ \E p \in AxisPoints : CreateNode(p)
    \/ \E a \in VertexArgs(AxisPoints), b \in VertexArgs(AxisPoints) : CreateEdge(a, b)

SpecEdges == Init /\ [][NextEdges]_vars

\* Edges between raw points of the coarse grid, and strand() on them
NextStrand ==
    \/ \E p \in Points, q \in Points : CreateEdge(RawArg(p), RawArg(q))
    \/ \E k \in 1..Len(edges), s \in Sequences : Strand(k, s)

SpecStrand == Init /\ [][NextStrand]_vars

\* Edges from one node at the origin to the fine grid, and their geometry
NextNt ==
    \/ Len(nodes) = 0 /\ CreateNode(Origin)
    \/ \E p \in FinePoints : Len(nodes) > 0 /\ CreateEdge(NodeArg(1), RawArg(p))
    \/ \E k \in 1..Len(edges) : Geometry(k)

SpecNt == Init /\ [][NextNt]_vars

----------------------------------------------------------------------------
(* Properties *)

Cross(a, b) ==
    <<a[2] * b[3] - a[3] * b[2], a[3] * b[1] - a[1] * b[3], a[1] * b[2] - a[2] * b[1]>>

\* The position an argument of DNAEdge(...) resolves to
ArgPos(a) == IF a.isNode THEN nodes[a.id].pos ELSE a.pos

ZeroAngle == [kind |-> "rad", cos |-> Scale * Scale]

PiAngle == [kind |-> "rad", cos |-> 0 - Scale * Scale]

IsSet(v) == v /= None

\* C1: right after DNAEdge(A, B), for raw points or existing nodes A and B,
\* the first vertex's vector_5p is B - A and the second vertex's vector_3p
\* is -(B - A), component for component.
C1_EdgeSetsVectors ==
    out.op = "DNAEdge" =>
        LET e == edges[out.edge]
            d == Sub(ArgPos(out.vertex_2), ArgPos(out.vertex_1))
        IN  /\ nodes[e.v0].vector_5p = d
            /\ nodes[e.v1].vector_3p = <<0 - d[1], 0 - d[2], 0 - d[3]>>

C1_Witness ==
    /\ out.op = "DNAEdge"
    /\ out.vertex_1.isNode /\ ~out.vertex_2.isNode
    /\ ArgPos(out.vertex_1) /= ArgPos(out.vertex_2)
    /\ nodes[edges[out.edge].v0].vector_3p /= None

\* C2: no DNAEdge is ever produced from two identical resolved positions,
\* and no direction vector is written by such a construction.
C2_NoDegenerateEdge ==
    \A k \in 1..Len(edges) : nodes[edges[k].v0].pos /= nodes[edges[k].v1].pos

\* C3: a direction field of a node, once set, is never assigned again: a
\* construction that would assign it fails and leaves the stored vector.
C3_WriteOnce ==
    [][/\ \A i \in 1..Len(nodes) :
             /\ IsSet(nodes[i].vector_3p) => nodes'[i].vector_3p = nodes[i].vector_3p
             /\ IsSet(nodes[i].vector_5p) => nodes'[i].vector_5p = nodes[i].vector_5p
       /\ Len(edges') > Len(edges) =>
             LET e == edges'[Len(edges')] IN
             /\ e.v0 <= Len(nodes) => ~IsSet(nodes[e.v0].vector_5p)
             /\ e.v1 <= Len(nodes) => ~IsSet(nodes[e.v1].vector_3p)]_vars

\* C4: a node's angle is None exactly when one of its direction vectors is
\* unset, and a defined number (a real angle, not NaN) when both are set.
C4_AngleDefinedIffBothSet ==
    \A i \in 1..Len(nodes) :
        /\ Angle(nodes[i]).kind = "None"
               <=> (~IsSet(nodes[i].vector_3p) \/ ~IsSet(nodes[i].vector_5p))
        /\ IsSet(nodes[i].vector_3p) /\ IsSet(nodes[i].vector_5p)
               => Angle(nodes[i]).kind = "rad"

\* C5: for a node with both direction vectors set and non-zero, the value
\* handed to the inverse cosine is the dot product of the normalised
\* -vector_3p and vector_5p (so it lies within [-1, 1]) and the angle is a
\* real number in [0, pi].
C5_ArgumentNormalised ==
    \A i \in 1..Len(nodes) :
        LET n == nodes[i] IN
        (IsSet(n.vector_3p) /\ IsSet(n.vector_5p)
            /\ NormSq(n.vector_3p) > 0 /\ NormSq(n.vector_5p) > 0)
        => LET c  == AngleArgument(n)
               d  == Dot(Neg(n.vector_3p), n.vector_5p)
           IN  /\ (0 - Scale * Scale) <= c /\ c <= Scale * Scale
               /\ Angle(n).kind = "rad"
               \* c / Scale^2 = d / (|vector_3p| |vector_5p|)
               /\ (c >= 0 <=> d >= 0)
               /\ c * c * NormSq(n.vector_3p) * NormSq(n.vector_5p)
                      = d * d * Scale * Scale * Scale * Scale
\* B lies strictly between A and C on one line
StrictlyBetween(A, B, C) ==
    /\ Cross(Sub(B, A), Sub(C, B)) = Origin
    /\ Dot(Sub(B, A), Sub(C, B)) > 0

\* The points A and C that a node at B was fed from, when it holds
\* vector_3p = B - A and vector_5p = C - B
FedFrom(n) == <<n.pos[1] - n.vector_3p[1], n.pos[2] - n.vector_3p[2], n.pos[3] - n.vector_3p[3]>>

FedTo(n) == <<n.pos[1] + n.vector_5p[1], n.pos[2] + n.vector_5p[2], n.pos[3] + n.vector_5p[3]>>

C7_StrandWarnsAndGenerates ==
    out.op = "strand" =>
        LET e   == edges[out.edge]
            sq  == NormSq(Sub(nodes[e.v1].pos, nodes[e.v0].pos))
            len == Len(out.sequence.text)
            \* len >= floor(root(sq) / Scale * 2.45)  <=>  len + 1 > root(sq) / Scale * 2.45
            atLeastNt ==
                ((len + 1) * NtPerLengthDen * Scale) * ((len + 1) * NtPerLengthDen * Scale)
                    > sq * NtPerLengthNum * NtPerLengthNum
        IN  /\ out.sequence.given /\ len > 0 /\ atLeastNt =>
                /\ out.printed = 1
                /\ out.status = "ok"
                /\ Len(out.calls) = 1
                /\ out.calls[1].bp = len
                /\ out.result = GenerateHelix(out.calls[1])
            /\ ~out.sequence.given =>
                /\ out.printed = 0
                /\ out.status = "ok"
                /\ Len(out.calls) = 1
                /\ out.calls[1].bp = NtLength(nodes, e)
                /\ out.result = GenerateHelix(out.calls[1])

\* A sequence exactly as long as a non-degenerate edge's nt_length
C7_Witness ==
    /\ out.op = "strand"
    /\ out.sequence.given
    /\ NtLength(nodes, edges[out.edge]) > 0
    /\ Len(out.sequence.text) = NtLength(nodes, edges[out.edge])
    /\ out.printed = 1
    /\ out.calls[1].bp = Len(out.sequence.text)

\* C8: node() with neither or with both of node_3p and node_5p fails with
\* the TypeError "Only give one node ..." and returns no node.
C8_NodeRejectsNoneOrBoth ==
    out.op = "node" /\ ((out.node_3p = 0) <=> (out.node_5p = 0)) =>
        out.status = "TypeError: Only give one node" /\ out.returned = 0

\* C9: nt_length is floor(length * 2.45) and is non-decreasing in length;
\* length 2.0 gives 4 and length 4.1 gives 10.
C9_NtLengthFloorMonotone ==
    /\ out.op = "geometry" =>
         LET n == out.nt_length
             sq == out.length.sq
         IN  /\ n >= 0
             /\ (n * 100 * Scale) * (n * 100 * Scale) <= sq * 245 * 245
             /\ ((n + 1) * 100 * Scale) * ((n + 1) * 100 * Scale) > sq * 245 * 245
             /\ sq = 4 * Scale * Scale => n = 4
             /\ 100 * sq = 1681 * Scale * Scale => n = 10
    /\ \A k \in 1..Len(edges), m \in 1..Len(edges) :
         Length(nodes, edges[k]).sq <= Length(nodes, edges[m]).sq
             => NtLength(nodes, edges[k]) <= NtLength(nodes, edges[m])

\* Two edges of lengths 2.0 and 4.1, the longer one just read
C9_Witness ==
    /\ out.op = "geometry"
    /\ 100 * out.length.sq = 1681 * Scale * Scale
    /\ out.nt_length = 10
    /\ \E k \in 1..Len(edges) :
         Length(nodes, edges[k]).sq = 4 * Scale * Scale /\ NtLength(nodes, edges[k]) = 4

\* C10: DNAEdge(v0, v1) changes only v0.vector_5p and v1.vector_3p: both
\* positions, v0.vector_3p, v1.vector_5p and every other node keep their
\* values; strand() and the geometric properties change no node and no
\* edge; an edge's vertices never change.
C10_Frame ==
    [][/\ SubSeq(edges', 1, Len(edges)) = edges
       /\ out'.op \in {"strand", "geometry"} => nodes' = nodes /\ edges' = edges
       /\ out'.op = "DNAEdge" /\ Len(edges') > Len(edges) =>
            LET e == edges'[Len(edges')] IN
            \A i \in 1..Len(nodes') :
                LET before == IF i <= Len(nodes) THEN nodes[i] ELSE DNANode(nodes'[i].pos)
                IN  /\ nodes'[i].pos = before.pos
                    /\ i = e.v0 => nodes'[i].vector_3p = before.vector_3p
                    /\ i = e.v1 => nodes'[i].vector_5p = before.vector_5p
                    /\ i \notin {e.v0, e.v1} => nodes'[i] = before]_vars
====
